---- MODULE Spec2Model ----
(***************************************************************************)
(* Time resampling of simulation outputs: the coefficient table            *)
(* (sphcoefs.h, select_coefficient_time) and the orientation table         *)
(* (orient.h: read_orient, find_time_index, interpolate_centre,            *)
(* interpolate_velocity_centre, return_centre, return_vel_centre,          *)
(* find_initial_velocity).                                                 *)
(*                                                                         *)
(* Every C++ double is an exact rational <<num, den>>, den > 0, in lowest  *)
(* terms; rounding of binary floating point is not modelled.  Vectors are   *)
(* functions over 0..n-1 so that indices are the source's indices.          *)
(* The spline code paths (SPLINEORIENT, splinecoefs) are compiled out /     *)
(* switched off, as in the default build.  Input files are well formed:     *)
(* NUMT >= 2 and as many data lines as the header announces.  A read        *)
(* outside a vector's storage returns an arbitrary value or ends the        *)
(* process.  The narrowing of dtime to float (orient.h:130, 177) is not     *)
(* modelled.                                                                *)
(***************************************************************************)
EXTENDS Integers, Sequences, FiniteSets, TLC

VARIABLES
  backwards,       \* orient.h:46   global toggle
  backwardsaccel,  \* orient.h:47   global toggle
  havevelocity,    \* orient.h:50   global toggle
  orient,          \* the SphOrient table
  coeftable,       \* the SphCoefs table
  coefs_at_time,   \* output array of select_coefficient_time
  lastq,           \* the last query answered since the orientation was
                   \* loaded: inputs, locals and outputs
  lastload,        \* the last read_orient call, and the number of
                   \* read_orient("") calls on the still inertial table
  pc               \* "run", "exited" (exit() was called), "crashed"

vars == <<backwards, backwardsaccel, havevelocity, orient, coeftable,
          coefs_at_time, lastq, lastload, pc>>

----------------------------------------------------------------------------
(* Exact rational arithmetic standing for double arithmetic *)

Abs(n) == IF n < 0 THEN -n ELSE n

RECURSIVE GCD(_, _)
GCD(a, b) == IF b = 0 THEN a ELSE GCD(b, a % b)

\* the rational n/d in lowest terms; n/0 stands for +-inf and 0/0 for NaN
Q(n, d) ==
  IF d = 0
  THEN << (IF n > 0 THEN 1 ELSE IF n < 0 THEN -1 ELSE 0), 0 >>
  ELSE LET s == IF d < 0 THEN -1 ELSE 1
           g == GCD(Abs(n), Abs(d))
       IN  << (s * n) \div g, (s * d) \div g >>

R(k) == << k, 1 >>

\* sums and products reduce by common factors before they multiply, so that
\* intermediate integers stay small
RAdd(a, b) ==
  LET g == GCD(a[2], b[2])
  IN  IF g = 0 THEN Q(a[1] * b[2] + b[1] * a[2], 0)
      ELSE Q(a[1] * (b[2] \div g) + b[1] * (a[2] \div g), (a[2] \div g) * b[2])
RNeg(a)    == << -a[1], a[2] >>
RSub(a, b) == RAdd(a, RNeg(b))
RMul(a, b) ==
  LET g1 == GCD(Abs(a[1]), b[2])
      g2 == GCD(Abs(b[1]), a[2])
  IN  IF g1 = 0 \/ g2 = 0 THEN Q(a[1] * b[1], a[2] * b[2])
      ELSE Q((a[1] \div g1) * (b[1] \div g2), (a[2] \div g2) * (b[2] \div g1))
RDiv(a, b) == RMul(a, Q(b[2], b[1]))
RLt(a, b)  == a[1] * b[2] < b[1] * a[2]
RLe(a, b)  == a[1] * b[2] <= b[1] * a[2]
RAbs(a)    == << Abs(a[1]), a[2] >>

\* a < 1/m for a >= 0, compared without forming a[1] * m
SmallerThanInv(a, m) ==
  \/ a[2] \div m > a[1]
  \/ a[2] \div m = a[1] /\ a[2] % m > 0

\* (int) x : conversion of a double to int truncates toward zero; of an
\* infinity or a NaN the x86 conversion yields INT_MIN
CastInt(x) ==
  IF x[2] = 0 THEN -2147483647 - 1
  ELSE IF x[1] >= 0 THEN x[1] \div x[2] ELSE -((-x[1]) \div x[2])

----------------------------------------------------------------------------
(* Bounds of the model *)

MaxNumT == 4        \* longest time axis of an input file

----------------------------------------------------------------------------
(* Coefficient table: sphcoefs.h *)

CoefStarts == { R(0), Q(1, 2) }
CoefGaps   == { R(1), Q(3, 2) }
CoefShapes == { <<0, 10, 0>>, <<1, 1, 0>>, <<0, 0, 1>>, <<5, -3, 2>> }
CoefLMAX   == { 0, 1 }
CoefNMAX   == { 1, 2 }
CoefQueryTimes ==
  { R(-2), R(-1), Q(-1, 2), R(0), Q(1, 2), R(1), Q(3, 2), R(2), Q(5, 2),
    R(3), R(4), R(5), R(6) }

RECURSIVE AxisAt(_, _, _)
\* element i of the time axis that starts at t0 and advances by gaps[1..]
AxisAt(t0, gaps, i) ==
  IF i = 0 THEN t0 ELSE RAdd(AxisAt(t0, gaps, i - 1), gaps[i])

\* the contents of a coefficient file: header NUMT, LMAX, NMAX, then per
\* time step the time and (LMAX+1)^2 * NMAX values
CoefFilesOfLength(n) ==
  { [ NUMT |-> n, LMAX |-> L, NMAX |-> N,
      t |-> [ i \in 0..(n - 1) |-> AxisAt(t0, gaps, i) ],
      coefs |-> [ i \in 0..(n - 1) |->
                  [ l \in 0..((L + 1) * (L + 1) - 1) |->
                    [ r \in 0..(N - 1) |->
                        R((s[1] + s[2] * i + s[3] * i * i) * (l + 1) + r * i) ] ] ] ]
    : t0 \in CoefStarts, L \in CoefLMAX, N \in CoefNMAX, s \in CoefShapes,
      gaps \in [ 1..(n - 1) -> CoefGaps ] }

CoefFiles == UNION { CoefFilesOfLength(n) : n \in 2..MaxNumT }

NoTable == [ NUMT |-> 0 ]
NoQuery == [ op |-> "none" ]

\* read_coef_file: the table takes the header and the blocks of the file
read_coef_file(f) ==
  [ NUMT |-> f.NUMT, LMAX |-> f.LMAX, NMAX |-> f.NMAX, t |-> f.t,
    coefs |-> f.coefs ]

\* the weights of the linear blend
Weight1Swapped(t, indx, q, dt) == RDiv(RSub(t[indx], q), dt)
Weight1(t, indx, q, dt) == RDiv(RSub(t[indx + 1], q), dt)
Weight2(t, indx, q, dt) == RDiv(RSub(q, t[indx]), dt)

\* a*x1 + b*x2
Blend(x1, a, x2, b) == RAdd(RMul(x1, a), RMul(x2, b))

\* select_coefficient_time: locals and result for query time q
select_coefficient_time(q, ct) ==
  LET dt    == RSub(ct.t[1], ct.t[0])
      raw   == CastInt(RDiv(RSub(q, ct.t[0]), dt))
      lo    == IF raw < 0 THEN 0 ELSE raw
      indx  == IF lo > ct.NUMT - 2 THEN ct.NUMT - 2 ELSE lo
      x1    == Weight1(ct.t, indx, q, dt)
      x2    == Weight2(ct.t, indx, q, dt)
      numl  == (ct.LMAX + 1) * (ct.LMAX + 1)
  IN  [ loc |-> [ op |-> "select_coefficient_time", q |-> q, dt |-> dt,
                    raw |-> raw, indx |-> indx, x1 |-> x1, x2 |-> x2,
                    warnlow |-> (raw < 0), warnhigh |-> (raw > ct.NUMT - 2) ],
        out |-> [ l \in 0..(numl - 1) |->
                  [ n \in 0..(ct.NMAX - 1) |->
                      Blend(x1, ct.coefs[indx][l][n],
                            x2, ct.coefs[indx + 1][l][n]) ] ] ]

----------------------------------------------------------------------------
(* Orientation table: orient.h *)

\* nPoints is the parameter of find_initial_velocity, the length of its
\* regression window.  read_orient passes the default, 2000 (orient.h:270);
\* the model fits over a window of nPoints samples and offers files both
\* shorter and at least as long as the window.
nPoints       == 3
MaxOverrun    == 2   \* elements past the end of time[] the scan may read
MaxEmptyCalls == 2   \* calls of read_orient("") that are counted

EmptyVec == [ i \in {} |-> R(0) ]

\* a default-constructed SphOrient (orient.h:52-83); NUMT is not yet assigned
FreshOrient ==
  [ inertial |-> TRUE, eventime |-> TRUE, NUMT |-> 0,
    time |-> EmptyVec, xcen |-> EmptyVec, ycen |-> EmptyVec, zcen |-> EmptyVec,
    ucen |-> EmptyVec, vcen |-> EmptyVec, wcen |-> EmptyVec,
    zerotimevelocities |-> EmptyVec, zerotimeintercepts |-> EmptyVec ]

\* what a read outside a vector's storage may return
Garbage == { R(-100), R(100) }
G0 == R(100)
\* the kinds of storage a read can run out of: the time axis, a position or
\* velocity series (or the fit's copy of one), a zero-time parameter vector
Kinds == { "time", "series", "fit" }
KindOf(name) ==
  CASE name = "time" -> "time"
    [] name \in { "zerotimevelocities", "zerotimeintercepts" } -> "fit"
    [] OTHER -> "series"

\* one garbage value per kind of storage read out of bounds, G0 elsewhere
Oracles(names) ==
  { [ k \in Kinds |-> IF k \in { KindOf(v) : v \in names } THEN h[k] ELSE G0 ]
    : h \in [ { KindOf(v) : v \in names } -> Garbage ] }
NoGarbage == [ k \in Kinds |-> G0 ]

\* vec[i] as the build reads it: the element, or garbage outside the storage
At(name, vec, i, g) == IF i \in DOMAIN vec THEN vec[i] ELSE g[KindOf(name)]
\* the set of out-of-storage reads among the reads rs = { <<name, vec, i>> }
Oob(rs) == { << r[1], r[3] >> : r \in { x \in rs : x[3] \notin DOMAIN x[2] } }

OrientGaps   == { R(1), Q(11, 10), Q(3, 2) }
\* <<t0, <<a, b, k, va, vb, vk>>>>: first time t0, position a*t + b + k*i*i
\* and velocity va*t + vb + vk*i*i at sample i (the y and z series differ)
OrientVariants == { << R(0), <<10, 0, 0, 2, 5, 0>> >>,
                    << Q(1, 2), <<1, 0, 3, -1, 2, 1>> >> }
OrientQueryTimes ==
  { R(-2), R(-1), Q(-1, 2), R(0), Q(1, 2), R(2), Q(21, 10), R(3), R(5) }

Series(time, n, a, b, k) ==
  [ i \in 0..(n - 1) |-> RAdd(RMul(R(a), time[i]), R(b + k * i * i)) ]

\* the contents of an orientation file with n data lines of 7 tokens
OrientFileOf(n, t0, gaps, p) ==
  LET time == [ i \in 0..(n - 1) |-> AxisAt(t0, gaps, i) ]
  IN  [ NUMT |-> n, time |-> time,
        xcen |-> Series(time, n, p[1], p[2], p[3]),
        ycen |-> Series(time, n, p[1] + 1, p[2] - 1, p[3]),
        zcen |-> Series(time, n, -p[1], p[2] + 2, 2 * p[3]),
        ucen |-> Series(time, n, p[4], p[5], p[6]),
        vcen |-> Series(time, n, p[4] + 1, p[5] - 1, p[6]),
        wcen |-> Series(time, n, -p[4], p[5] + 2, 2 * p[6]) ]

\* files whose time axis is strictly increasing
OrientFiles ==
  UNION { { OrientFileOf(n, v[1], gaps, v[2])
            : v \in OrientVariants, gaps \in [ 1..(n - 1) -> OrientGaps ] }
          : n \in 2..MaxNumT }

\* files whose times are all identical (the degenerate regression input),
\* long enough to fill the regression window
DegenerateFiles ==
  UNION { { OrientFileOf(n, v[1], [ i \in 1..(n - 1) |-> R(0) ], v[2])
            : v \in OrientVariants } : n \in nPoints..MaxNumT }

(* find_initial_velocity: least-squares fit over the first np samples *)

\* fabs(denominator) < 1e-7
DegenerateSigned(denominator) == denominator[1] < 0 /\ SmallerThanInv(RAbs(denominator), 10000000)
Degenerate(denominator) == SmallerThanInv(RAbs(denominator), 10000000)

\* denominator = sumT2 - sumT * tMean
Denominator(sumT2, sumT, tMean) == RSub(sumT2, RMul(sumT, tMean))

\* (sumTX - sumT * xMean) / denominator
SlopeNoMean(sumTX, sumT, xMean, denominator) ==
  RDiv(RSub(sumTX, xMean), denominator)
Slope(sumTX, sumT, xMean, denominator) ==
  RDiv(RSub(sumTX, RMul(sumT, xMean)), denominator)

\* xMean - slope * tMean
Intercept(xMean, slope, tMean) == RSub(xMean, RMul(slope, tMean))

RECURSIVE SumProd(_, _, _)
\* sum over i = 0..np-1 of a[i] * b[i], accumulated in loop order
SumProd(a, b, np) ==
  IF np = 0 THEN R(0)
  ELSE RAdd(SumProd(a, b, np - 1), RMul(a[np - 1], b[np - 1]))

\* the end of the summation loops, for (int i = 0; i < nPoints; i++): the
\* table's sample count plays no part in it
WindowEndClamped(o, np) == IF o.NUMT < np THEN o.NUMT ELSE np
WindowEnd(o, np) == np

find_initial_velocity(o, accel, np, g) ==
  LET xterm == IF accel THEN o.ucen ELSE o.xcen
      yterm == IF accel THEN o.vcen ELSE o.ycen
      zterm == IF accel THEN o.wcen ELSE o.zcen
      w     == WindowEnd(o, np)
      one   == [ i \in 0..(w - 1) |-> R(1) ]
      T     == [ i \in 0..(w - 1) |-> At("time", o.time, i, g) ]
      X     == [ i \in 0..(w - 1) |-> At("xterm", xterm, i, g) ]
      Y     == [ i \in 0..(w - 1) |-> At("yterm", yterm, i, g) ]
      Z     == [ i \in 0..(w - 1) |-> At("zterm", zterm, i, g) ]
      sumT  == SumProd(T, one, w)
      sumX  == SumProd(X, one, w)
      sumY  == SumProd(Y, one, w)
      sumZ  == SumProd(Z, one, w)
      sumTX == SumProd(T, X, w)
      sumTY == SumProd(T, Y, w)
      sumTZ == SumProd(T, Z, w)
      sumT2 == SumProd(T, T, w)
      tMean == RDiv(sumT, R(np))
      xMean == RDiv(sumX, R(np))
      yMean == RDiv(sumY, R(np))
      zMean == RDiv(sumZ, R(np))
      denominator == Denominator(sumT2, sumT, tMean)
      vel == [ k \in 0..2 |->
               CASE k = 0 -> Slope(sumTX, sumT, xMean, denominator)
                 [] k = 1 -> Slope(sumTY, sumT, yMean, denominator)
                 [] k = 2 -> Slope(sumTZ, sumT, zMean, denominator) ]
      icpt == [ k \in 0..2 |->
               CASE k = 0 -> Intercept(xMean, vel[0], tMean)
                 [] k = 1 -> Intercept(yMean, vel[1], tMean)
                 [] k = 2 -> Intercept(zMean, vel[2], tMean) ]
      oob == UNION { Oob({ <<"time", o.time, i>>, <<"xterm", xterm, i>>,
                           <<"yterm", yterm, i>>, <<"zterm", zterm, i>> })
                     : i \in 0..(w - 1) }
  IN  IF Degenerate(denominator)
      THEN [ exit |-> TRUE, orient |-> o, oob |-> oob ]
      ELSE [ exit |-> FALSE, oob |-> oob,
             orient |-> [ o EXCEPT
               !.zerotimevelocities = vel,
               !.zerotimeintercepts = IF accel THEN icpt ELSE @ ] ]

(* read_orient *)

\* vector::resize(n) of a vector v: keeps v's elements, appends zeros
Resize(v, n) == [ i \in 0..(n - 1) |-> IF i \in DOMAIN v THEN v[i] ELSE R(0) ]

\* abs(time[i] - time[i-1] - dt) > dt/10
UnevenHalf(time, i, dt) ==
  RLt(RDiv(dt, R(2)), RAbs(RSub(RSub(time[i], time[i - 1]), dt)))
Uneven(time, i, dt) ==
  RLt(RDiv(dt, R(10)), RAbs(RSub(RSub(time[i], time[i - 1]), dt)))

\* read_orient with an empty path returns at once
EmptyPathTableOpened(o) == [ o EXCEPT !.inertial = FALSE ]
EmptyPathTable(o) == o

\* read_orient up to the spacing check: the table after the file f is parsed
parse_orient(f, o) ==
  LET dt == RSub(f.time[1], f.time[0])
  IN  [ o EXCEPT !.inertial = FALSE, !.NUMT = f.NUMT,
                 !.time = f.time, !.xcen = f.xcen, !.ycen = f.ycen,
                 !.zcen = f.zcen,
                 !.ucen = IF havevelocity THEN f.ucen ELSE @,
                 !.vcen = IF havevelocity THEN f.vcen ELSE @,
                 !.wcen = IF havevelocity THEN f.wcen ELSE @,
                 !.eventime =
                   IF \E i \in 2..(f.NUMT - 1) : Uneven(f.time, i, dt)
                   THEN FALSE ELSE @ ]

\* the end of read_orient: the zero-time parameters of the parsed table o
zero_time_fit(o, g) ==
  IF ~havevelocity
  THEN [ exit |-> FALSE, oob |-> {}, fit |-> "none", orient |-> o ]
  ELSE IF backwards
       THEN IF backwardsaccel
            THEN find_initial_velocity(
                   [ o EXCEPT !.zerotimevelocities = Resize(@, 3),
                              !.zerotimeintercepts = Resize(@, 3) ],
                   TRUE, nPoints, g) @@ [ fit |-> "accel" ]
            ELSE find_initial_velocity(
                   [ o EXCEPT !.zerotimevelocities = Resize(@, 3) ],
                   FALSE, nPoints, g) @@ [ fit |-> "slope" ]
       ELSE [ exit |-> FALSE, oob |-> {}, fit |-> "none",
              orient |-> [ o EXCEPT !.zerotimevelocities =
                             [ k \in 0..2 |->
                                 CASE k = 0 -> o.ucen[0]
                                   [] k = 1 -> o.vcen[0]
                                   [] k = 2 -> o.wcen[0] ] ] ]

\* read_orient with the path of a readable file whose contents are f
read_orient(f, o, g) ==
  CHOOSE r \in { zero_time_fit(p, g) : p \in { parse_orient(f, o) } } : TRUE

(* find_time_index and the two linear evaluators *)

RECURSIVE ScanTime(_, _, _, _)
\* the while loop of find_time_index from indx on: the index at which
\* time[indx] <= q first fails.  mem[k] is what the build finds k elements
\* past the end of time[]; running off mem ends the process.
ScanTime(o, q, indx, mem) ==
  IF indx \in DOMAIN o.time
  THEN IF RLe(o.time[indx], q)
       THEN ScanTime(o, q, indx + 1, mem)
       ELSE [ indx |-> indx, crashed |-> FALSE ]
  ELSE IF indx - o.NUMT + 1 \in DOMAIN mem
       THEN IF RLe(mem[indx - o.NUMT + 1], q)
            THEN ScanTime(o, q, indx + 1, mem)
            ELSE [ indx |-> indx, crashed |-> FALSE ]
       ELSE [ indx |-> indx, crashed |-> TRUE ]

find_time_index(q, o, mem) ==
  LET s    == ScanTime(o, q, 0, mem)
      back == s.indx - 1
      lo   == IF back < 0 THEN 0 ELSE back
      indx == IF lo > o.NUMT - 2 THEN o.NUMT - 2 ELSE lo
  IN  [ indx |-> indx, dt |-> RSub(o.time[indx + 1], o.time[indx]),
        warnhigh |-> (back > o.NUMT - 2), crashed |-> s.crashed,
        scanned |-> 0..s.indx, resolver |-> "scan" ]

\* the uniform formula of interpolate_centre / interpolate_velocity_centre
uniform_index(q, o, g) ==
  LET dt == RSub(At("time", o.time, 1, g), At("time", o.time, 0, g))
  IN  [ indx |-> CastInt(RDiv(RSub(q, At("time", o.time, 0, g)), dt)),
        dt |-> dt, warnhigh |-> FALSE, crashed |-> FALSE, scanned |-> {},
        resolver |-> "uniform" ]

resolve(q, o, g, mem) ==
  IF o.eventime THEN uniform_index(q, o, g) ELSE find_time_index(q, o, mem)

Vec3(a, b, c) == [ k \in 0..2 |-> CASE k = 0 -> a [] k = 1 -> b [] k = 2 -> c ]

\* the pre-simulation models, per axis
presim_centre(cen0, dtime, vel, icpt) ==
  IF backwardsaccel
  THEN RAdd(cen0, RMul(dtime, RAdd(RMul(vel, dtime), icpt)))
  ELSE RAdd(cen0, RMul(dtime, vel))

presim_velocity(dtime, vel, icpt) ==
  IF backwardsaccel THEN RAdd(RMul(vel, dtime), icpt) ELSE vel

\* the standard (index/weight) mode shared by both evaluators, on the series
\* named a, b, c
standard_mode(q, o, g, r, a, b, c) ==
  LET indx == IF r.indx > o.NUMT - 2 THEN o.NUMT - 2 ELSE r.indx
      t0   == At("time", o.time, indx, g)
      t1   == At("time", o.time, indx + 1, g)
      x1   == RDiv(RSub(t1, q), r.dt)
      x2   == RDiv(RSub(q, t0), r.dt)
      rs   == { <<"time", o.time, indx>>, <<"time", o.time, indx + 1>>,
                <<a, o[a], indx>>, <<a, o[a], indx + 1>>,
                <<b, o[b], indx>>, <<b, o[b], indx + 1>>,
                <<c, o[c], indx>>, <<c, o[c], indx + 1>> }
  IN  [ branch |-> "standard", indx |-> indx, x1 |-> x1, x2 |-> x2,
        value |-> Vec3(
          Blend(x1, At(a, o[a], indx, g), x2, At(a, o[a], indx + 1, g)),
          Blend(x1, At(b, o[b], indx, g), x2, At(b, o[b], indx + 1, g)),
          Blend(x1, At(c, o[c], indx, g), x2, At(c, o[c], indx + 1, g))),
        reads |-> { << x[1], x[3] >> : x \in rs }, oob |-> Oob(rs) ]

\* the zero-time parameters a pre-simulation query reads
presim_reads(o) ==
  { <<"zerotimevelocities", o.zerotimevelocities, k>> : k \in 0..2 } \cup
  ( IF backwardsaccel
    THEN { <<"zerotimeintercepts", o.zerotimeintercepts, k>> : k \in 0..2 }
    ELSE {} )

\* interpolate_centre once indx and dt are resolved to r
centre_at(q, o, g, r) ==
  LET common == [ op |-> "interpolate_centre", q |-> q, raw |-> r.indx,
                  dt |-> r.dt, resolver |-> r.resolver,
                  warnhigh |-> r.warnhigh, crashed |-> r.crashed,
                  scanned |-> r.scanned ]
  IN  IF havevelocity /\ r.indx < 0
      THEN LET dtime == RSub(q, At("time", o.time, 0, g))
               V(k) == At("zerotimevelocities", o.zerotimevelocities, k, g)
               I(k) == At("zerotimeintercepts", o.zerotimeintercepts, k, g)
               rs == presim_reads(o) \cup
                     { <<"time", o.time, 0>>, <<"xcen", o.xcen, 0>>,
                       <<"ycen", o.ycen, 0>>, <<"zcen", o.zcen, 0>> }
           IN  common @@
               [ branch |-> "presim", indx |-> r.indx,
                 x1 |-> R(0), x2 |-> R(0),
                 value |-> Vec3(
                   presim_centre(At("xcen", o.xcen, 0, g), dtime, V(0), I(0)),
                   presim_centre(At("ycen", o.ycen, 0, g), dtime, V(1), I(1)),
                   presim_centre(At("zcen", o.zcen, 0, g), dtime, V(2), I(2))),
                 reads |-> { << x[1], x[3] >> : x \in rs }, oob |-> Oob(rs) ]
      ELSE common @@ standard_mode(q, o, g, r, "xcen", "ycen", "zcen")

interpolate_centre(q, o, g, mem) ==
  CHOOSE c \in { centre_at(q, o, g, r) : r \in { resolve(q, o, g, mem) } } :
    TRUE

\* interpolate_velocity_centre once indx and dt are resolved to r
velocity_at(q, o, g, r) ==
  LET common == [ op |-> "interpolate_velocity_centre", q |-> q,
                  raw |-> r.indx, dt |-> r.dt, resolver |-> r.resolver,
                  warnhigh |-> r.warnhigh, crashed |-> r.crashed,
                  scanned |-> r.scanned ]
  IN  IF r.indx < 0
      THEN LET dtime == RSub(q, At("time", o.time, 0, g))
               V(k) == At("zerotimevelocities", o.zerotimevelocities, k, g)
               I(k) == At("zerotimeintercepts", o.zerotimeintercepts, k, g)
               rs == presim_reads(o) \cup
                     ( IF backwardsaccel THEN { <<"time", o.time, 0>> } ELSE {} )
           IN  common @@
               [ branch |-> "presim", indx |-> r.indx,
                 x1 |-> R(0), x2 |-> R(0),
                 value |-> Vec3(presim_velocity(dtime, V(0), I(0)),
                                presim_velocity(dtime, V(1), I(1)),
                                presim_velocity(dtime, V(2), I(2))),
                 reads |-> { << x[1], x[3] >> : x \in rs }, oob |-> Oob(rs) ]
      ELSE common @@ standard_mode(q, o, g, r, "ucen", "vcen", "wcen")

interpolate_velocity_centre(q, o, g, mem) ==
  CHOOSE c \in { velocity_at(q, o, g, r) : r \in { resolve(q, o, g, mem) } } :
    TRUE

\* the answer of an inertial table: (0,0,0), no series read
inertial_answer(op, q) ==
  [ op |-> op, q |-> q, raw |-> 0, dt |-> R(0), resolver |-> "none",
    warnhigh |-> FALSE, crashed |-> FALSE, scanned |-> {},
    branch |-> "inertial", indx |-> 0, x1 |-> R(0), x2 |-> R(0),
    value |-> Vec3(R(0), R(0), R(0)), reads |-> {}, oob |-> {} ]

return_centre(q, o, g, mem) ==
  IF o.inertial THEN inertial_answer("return_centre", q)
  ELSE [ interpolate_centre(q, o, g, mem) EXCEPT !.op = "return_centre" ]

return_vel_centre(q, o, g, mem) ==
  IF o.inertial THEN inertial_answer("return_vel_centre", q)
  ELSE [ interpolate_velocity_centre(q, o, g, mem)
           EXCEPT !.op = "return_vel_centre" ]

----------------------------------------------------------------------------
(* The state machine *)

NoLoad == [ path |-> "none", empties |-> 0, exit |-> FALSE, oob |-> {},
            fit |-> "none" ]

Init ==
  /\ backwards = FALSE
  /\ backwardsaccel = FALSE
  /\ havevelocity = TRUE
  /\ orient = FreshOrient
  /\ coeftable = NoTable
  /\ coefs_at_time = << >>
  /\ lastq = NoQuery
  /\ lastload = NoLoad
  /\ pc = "run"

orientvars == <<backwards, backwardsaccel, havevelocity, orient, lastload>>

ReadCoefFile ==
  /\ pc = "run"
  /\ coeftable = NoTable
  /\ \E f \in CoefFiles : coeftable' = read_coef_file(f)
  /\ UNCHANGED <<orientvars, coefs_at_time, lastq, pc>>

\* select_coefficient_time takes the table by value and leaves it as it is:
\* a behaviour asks one query of the table
SelectCoefficientTime ==
  /\ pc = "run"
  /\ coeftable # NoTable
  /\ lastq = NoQuery
  /\ \E q \in CoefQueryTimes :
       \E res \in { select_coefficient_time(q, coeftable) } :
         /\ lastq' = res.loc
         /\ coefs_at_time' = res.out
  /\ UNCHANGED <<orientvars, coeftable, pc>>

\* the driver sets the global toggles before it loads the orientation
Configure ==
  /\ pc = "run"
  /\ orient.inertial
  /\ \E hv \in BOOLEAN, b \in BOOLEAN, ba \in BOOLEAN :
       /\ <<hv, b, ba>> # <<havevelocity, backwards, backwardsaccel>>
       /\ havevelocity' = hv
       /\ backwards' = b
       /\ backwardsaccel' = ba
  /\ UNCHANGED <<orient, coeftable, coefs_at_time, lastq, lastload, pc>>

\* read_orient("", orient)
ReadOrientEmpty ==
  /\ pc = "run"
  /\ orient.inertial
  /\ lastload.empties < MaxEmptyCalls
  /\ orient' = EmptyPathTable(orient)
  /\ lastload' = [ lastload EXCEPT !.empties = @ + 1 ]
  /\ UNCHANGED <<backwards, backwardsaccel, havevelocity, coeftable,
                 coefs_at_time, lastq, pc>>

\* read_orient(path, orient) with a path that cannot be opened: exit(1)
ReadOrientMissing ==
  /\ pc = "run"
  /\ orient.inertial
  /\ lastload' = [ lastload EXCEPT !.path = "missing", !.exit = TRUE ]
  /\ pc' = "exited"
  /\ UNCHANGED <<backwards, backwardsaccel, havevelocity, orient, coeftable,
                 coefs_at_time, lastq>>

\* the files offered to read_orient: strictly increasing axes, and the
\* all-identical axis when the regression is configured
InputFiles ==
  OrientFiles \cup
  ( IF havevelocity /\ backwards THEN DegenerateFiles ELSE {} )

\* read_orient(path, orient) with the path of a readable file.  The load
\* starts the record of queries afresh, so loading after a query of the
\* inertial table reaches the states that loading before it reaches.
ReadOrientFile ==
  /\ pc = "run"
  /\ orient.inertial
  /\ lastq = NoQuery
  /\ \E f \in InputFiles :
       \E r0 \in { read_orient(f, orient, NoGarbage) } :
         \E g \in Oracles({ x[1] : x \in r0.oob }) :
           \E r \in { read_orient(f, orient, g) } :
             /\ orient' = r.orient
             /\ lastload' = [ path |-> "file", empties |-> 0,
                              exit |-> r.exit, oob |-> r.oob, fit |-> r.fit ]
             /\ pc' = IF r.exit THEN "exited" ELSE "run"
  /\ lastq' = NoQuery
  /\ UNCHANGED <<backwards, backwardsaccel, havevelocity, coeftable,
                 coefs_at_time>>

\* what lies past the end of time[] when no scan runs that far
NoOverrun == [ k \in 1..MaxOverrun |-> G0 ]

\* the answer of the entry point named entry
Answer(entry, q, o, g, mem) ==
  IF entry = "return_centre" THEN return_centre(q, o, g, mem)
  ELSE return_vel_centre(q, o, g, mem)

\* a query through an entry point (return_centre or return_vel_centre).  The
\* evaluators leave the table as it is, so an answer does not depend on the
\* queries before it and a second query reaches the states the first one
\* reaches: a behaviour asks one query of each table.
Query(entry) ==
  /\ pc = "run"
  /\ lastq = NoQuery
  /\ \E q \in OrientQueryTimes :
       \E r0 \in { Answer(entry, q, orient, NoGarbage, NoOverrun) } :
         \E mem \in ( IF r0.scanned \subseteq DOMAIN orient.time
                      THEN { NoOverrun } ELSE [ 1..MaxOverrun -> Garbage ] ),
            g \in Oracles({ x[1] : x \in r0.oob }) :
           \E r \in { Answer(entry, q, orient, g, mem) } :
             \/ /\ ~r.crashed
                /\ lastq' = r @@ [ nload |-> lastload.empties ]
                /\ pc' = "run"
             \/ /\ r.crashed \/ r.oob # {}
                /\ lastq' = [ r EXCEPT !.branch = "crashed" ]
                              @@ [ nload |-> lastload.empties ]
                /\ pc' = "crashed"
  /\ UNCHANGED <<orientvars, coeftable, coefs_at_time>>

ReturnCentre == Query("return_centre")

ReturnVelCentre == Query("return_vel_centre")

NextCoef == ReadCoefFile \/ SelectCoefficientTime

NextOrient ==
  \/ Configure
  \/ ReadOrientEmpty
  \/ ReadOrientMissing
  \/ ReadOrientFile
  \/ ReturnCentre
  \/ ReturnVelCentre

SpecCoef == Init /\ [][NextCoef]_vars

SpecOrient == Init /\ [][NextOrient]_vars

----------------------------------------------------------------------------
(* Predicates used to state the properties *)

Zero3 == [ k \in 0..2 |-> R(0) ]

StrictlyIncreasing(T, n) == \A i \in 1..(n - 1) : RLt(T[i - 1], T[i])

IsUniform(T, n) ==
  \A i \in 1..(n - 1) : RSub(T[i], T[i - 1]) = RSub(T[1], T[0])

OrientQuery == lastq.op \in { "return_centre", "return_vel_centre" }

\* the last query was answered by the index/weight machinery of orient.h
OrientStandard == OrientQuery /\ lastq.branch = "standard"

\* the line through (t0, v0) with slope (v1 - v0) / dt, at q
LineAt(q, t0, v0, v1, dt) ==
  RAdd(v0, RMul(RSub(q, t0), RDiv(RSub(v1, v0), dt)))

----------------------------------------------------------------------------
(* C1: every index the linear evaluators use to read the series lies in    *)
(* 0..n-2, for every query time, both spacing policies and every setting   *)
(* of the velocity flag.                                                   *)
C1_IndexInRange ==
  /\ lastq.op = "select_coefficient_time" =>
       (0 <= lastq.indx /\ lastq.indx <= coeftable.NUMT - 2)
  /\ OrientStandard =>
       (0 <= lastq.indx /\ lastq.indx <= orient.NUMT - 2)

(* C2: on a strictly increasing axis and for T[0] <= q < T[n-1], the       *)
(* resolved index i is the largest with T[i] <= q: T[i] <= q < T[i+1].    *)
C2_BracketingIndex ==
  ( /\ OrientStandard
    /\ StrictlyIncreasing(orient.time, orient.NUMT)
    /\ RLe(orient.time[0], lastq.q)
    /\ RLt(lastq.q, orient.time[orient.NUMT - 1]) )
  => /\ lastq.indx \in 0..(orient.NUMT - 2)
     /\ RLe(orient.time[lastq.indx], lastq.q)
     /\ RLt(lastq.q, orient.time[lastq.indx + 1])

(* C3: the two weights of every linearly evaluated query sum to one, also  *)
(* on an orientation table that the loader's 10% test flagged as evenly    *)
(* spaced.  Stated for the queries whose reads all fall inside the stored  *)
(* series, so that a violation is a fault of the divisor alone.            *)
C3_WeightsSumToOne ==
  ( \/ lastq.op = "select_coefficient_time"
    \/ OrientStandard /\ lastq.oob = {} )
  => RAdd(lastq.x1, lastq.x2) = R(1)

(* C4: on a uniform axis and for q in [T[i], T[i+1]], the snapshot of      *)
(* select_coefficient_time has (L+1)^2 x N entries, each equal to          *)
(* w1*grid[i] + w2*grid[i+1] with w1 = (T[i+1]-q)/dt, w2 = (q-T[i])/dt;    *)
(* at q = T[i] the snapshot is grid[i].                                    *)
C4_AffineBlend ==
  ( /\ lastq.op = "select_coefficient_time"
    /\ IsUniform(coeftable.t, coeftable.NUMT) )
  => \A i \in 0..(coeftable.NUMT - 2) :
       ( RLe(coeftable.t[i], lastq.q) /\ RLe(lastq.q, coeftable.t[i + 1]) )
       => LET dt   == RSub(coeftable.t[1], coeftable.t[0])
              w1   == RDiv(RSub(coeftable.t[i + 1], lastq.q), dt)
              w2   == RDiv(RSub(lastq.q, coeftable.t[i]), dt)
              numl == (coeftable.LMAX + 1) * (coeftable.LMAX + 1)
          IN  /\ DOMAIN coefs_at_time = 0..(numl - 1)
              /\ \A l \in 0..(numl - 1) :
                   /\ DOMAIN coefs_at_time[l] = 0..(coeftable.NMAX - 1)
                   /\ \A r \in 0..(coeftable.NMAX - 1) :
                        coefs_at_time[l][r] =
                          RAdd(RMul(w1, coeftable.coefs[i][l][r]),
                               RMul(w2, coeftable.coefs[i + 1][l][r]))
              /\ lastq.q = coeftable.t[i] =>
                   coefs_at_time = coeftable.coefs[i]

\* a query strictly inside the second interval of a uniform axis, answered
\* with a 4 x 2 snapshot that differs from both neighbouring samples
C4_Witness ==
  /\ lastq.op = "select_coefficient_time"
  /\ IsUniform(coeftable.t, coeftable.NUMT)
  /\ coeftable.NUMT >= 3
  /\ coeftable.LMAX = 1 /\ coeftable.NMAX = 2
  /\ RLt(coeftable.t[1], lastq.q) /\ RLt(lastq.q, coeftable.t[2])
  /\ coefs_at_time # coeftable.coefs[1]
  /\ coefs_at_time # coeftable.coefs[2]

(* C5: on a uniform axis the linear evaluator answers a query outside the  *)
(* stored domain by extending the boundary segment's line: below T[0] the  *)
(* line through the first two samples, above T[n-1] the line through the   *)
(* last two; for select_coefficient_time and for the standard mode of      *)
(* interpolate_centre under the uniform policy.                            *)
C5_BoundarySlope ==
  /\ ( /\ lastq.op = "select_coefficient_time"
       /\ IsUniform(coeftable.t, coeftable.NUMT) )
     => LET T == coeftable.t
            n == coeftable.NUMT
            dt == RSub(T[1], T[0])
        IN  \A l \in DOMAIN coeftable.coefs[0] :
              \A r \in DOMAIN coeftable.coefs[0][l] :
                /\ RLt(lastq.q, T[0]) =>
                     coefs_at_time[l][r] =
                       LineAt(lastq.q, T[0], coeftable.coefs[0][l][r],
                              coeftable.coefs[1][l][r], dt)
                /\ RLt(T[n - 1], lastq.q) =>
                     coefs_at_time[l][r] =
                       LineAt(lastq.q, T[n - 1], coeftable.coefs[n - 1][l][r],
                              RSub(RMul(R(2), coeftable.coefs[n - 1][l][r]),
                                   coeftable.coefs[n - 2][l][r]), dt)
  /\ ( /\ lastq.op = "return_centre" /\ lastq.branch = "standard"
       /\ orient.eventime
       /\ IsUniform(orient.time, orient.NUMT) )
     => LET T == orient.time
            n == orient.NUMT
            dt == RSub(T[1], T[0])
            cen(k) == CASE k = 0 -> orient.xcen [] k = 1 -> orient.ycen
                        [] k = 2 -> orient.zcen
        IN  \A k \in 0..2 :
              /\ RLt(lastq.q, T[0]) =>
                   lastq.value[k] =
                     LineAt(lastq.q, T[0], cen(k)[0], cen(k)[1], dt)
              /\ RLt(T[n - 1], lastq.q) =>
                   lastq.value[k] =
                     LineAt(lastq.q, T[n - 1], cen(k)[n - 1],
                            RSub(RMul(R(2), cen(k)[n - 1]), cen(k)[n - 2]), dt)

(* C6: on a populated table with velocity data, every query before T[0]   *)
(* is answered by the pre-simulation model; without the acceleration term  *)
(* the centre is cen[0] + (q - T[0]) * zerotimevelocities and the velocity *)
(* is zerotimevelocities, which by default is the first velocity sample.   *)
C6_PreSimulationModel ==
  ( /\ OrientQuery
    /\ ~orient.inertial
    /\ havevelocity
    /\ lastq.branch # "crashed"
    /\ RLt(lastq.q, orient.time[0]) )
  => /\ lastq.branch = "presim"
     /\ ( ~backwards /\ ~backwardsaccel ) =>
          /\ orient.zerotimevelocities =
               Vec3(orient.ucen[0], orient.vcen[0], orient.wcen[0])
          /\ lastq.op = "return_vel_centre" =>
               lastq.value = orient.zerotimevelocities
          /\ lastq.op = "return_centre" =>
               lastq.value =
                 [ k \in 0..2 |->
                     RAdd(Vec3(orient.xcen[0], orient.ycen[0], orient.zcen[0])[k],
                          RMul(RSub(lastq.q, orient.time[0]),
                               orient.zerotimevelocities[k])) ]

(* C7: a table on which read_orient was only ever called with an empty    *)
(* path is still the default-constructed table, inertial, the process      *)
(* still runs, and return_centre / return_vel_centre answer (0,0,0) for    *)
(* every query time and every setting of the three flags, reading no       *)
(* series.                                                                 *)
C7_InertialDefault ==
  ( lastload.path = "none" /\ lastload.empties >= 1 )
  => /\ orient = FreshOrient
     /\ pc = "run"
     /\ OrientQuery =>
          /\ lastq.value = Zero3
          /\ lastq.reads = {}
          /\ lastq.branch = "inertial"

\* a velocity query answered after two empty-path calls, with the flags
\* away from their defaults
C7_Witness ==
  /\ lastload.path = "none" /\ lastload.empties = 2
  /\ lastq.op = "return_vel_centre" /\ lastq.nload = 2
  /\ lastq.q = R(-2)
  /\ ~havevelocity /\ backwards /\ backwardsaccel

(* C8: after read_orient loads a file with n >= 2 samples into a fresh     *)
(* table, eventime is true iff no spacing T[i]-T[i-1], i in 2..n-1,        *)
(* deviates from T[1]-T[0] by more than a tenth of T[1]-T[0]; the axis     *)
(* [0,1,2.5] gives false, [0,1,2,3] gives true, and a query takes the      *)
(* scan-based resolver exactly when the flag is false.                     *)
C8_EvenSpacingFlag ==
  lastload.path = "file"
  => LET T  == orient.time
         dt == RSub(T[1], T[0])
     IN  /\ orient.eventime <=>
              ~ \E i \in 2..(orient.NUMT - 1) :
                  RLt(dt, RMul(R(10), RAbs(RSub(RSub(T[i], T[i - 1]), dt))))
         /\ T = (0 :> R(0) @@ 1 :> R(1) @@ 2 :> Q(5, 2)) => ~orient.eventime
         /\ T = (0 :> R(0) @@ 1 :> R(1) @@ 2 :> R(2) @@ 3 :> R(3))
              => orient.eventime
         /\ ( OrientQuery /\ lastq.branch # "inertial" ) =>
              ( lastq.resolver = "scan" <=> ~orient.eventime )

\* the axis [0,1,2.5] was loaded, flagged uneven and queried by the scan
C8_Witness ==
  /\ lastload.path = "file"
  /\ orient.time = (0 :> R(0) @@ 1 :> R(1) @@ 2 :> Q(5, 2))
  /\ ~orient.eventime
  /\ OrientQuery /\ lastq.resolver = "scan"

(* C9: with backward extrapolation enabled, a regression window whose      *)
(* times are all identical makes find_initial_velocity exit before it      *)
(* writes a slope or an intercept: the process has exited, the zero-time   *)
(* vectors hold what resize() gave them, and no query is ever answered.    *)
C9_DegenerateRegressionExits ==
  ( /\ lastload.path = "file"
    /\ havevelocity /\ backwards
    /\ orient.NUMT >= nPoints
    /\ \A i \in 0..(nPoints - 1) : orient.time[i] = orient.time[0] )
  => /\ pc = "exited"
     /\ lastload.exit
     /\ orient.zerotimevelocities = Zero3
     /\ backwardsaccel => orient.zerotimeintercepts = Zero3
     /\ lastq = NoQuery

\* the degenerate file was offered in acceleration mode and the load exited
C9_Witness ==
  /\ lastload.path = "file" /\ lastload.fit = "accel" /\ lastload.exit
  /\ pc = "exited"
  /\ orient.NUMT >= nPoints
  /\ \A i \in 0..(nPoints - 1) : orient.time[i] = orient.time[0]

(* C10: when the regression window lies in the table, its times are not    *)
(* degenerate and the chosen channel of an axis is exactly a*t + b on the  *)
(* window, find_initial_velocity leaves a in zerotimevelocities of that    *)
(* axis and, in acceleration mode, b in zerotimeintercepts (2*t + 5 gives  *)
(* slope 2 and intercept 5).  The line a*t + b is the one through the      *)
(* first two samples of the window.                                        *)
C10_RegressionRecovery ==
  ( /\ lastload.path = "file"
    /\ lastload.fit # "none"
    /\ ~lastload.exit
    /\ orient.NUMT >= nPoints
    /\ orient.time[0] # orient.time[1] )
  => LET T == orient.time
         chan(k) == IF lastload.fit = "accel"
                    THEN CASE k = 0 -> orient.ucen [] k = 1 -> orient.vcen
                           [] k = 2 -> orient.wcen
                    ELSE CASE k = 0 -> orient.xcen [] k = 1 -> orient.ycen
                           [] k = 2 -> orient.zcen
         a(k) == RDiv(RSub(chan(k)[1], chan(k)[0]), RSub(T[1], T[0]))
         b(k) == RSub(chan(k)[0], RMul(a(k), T[0]))
     IN  \A k \in 0..2 :
           ( \A i \in 0..(nPoints - 1) :
               chan(k)[i] = RAdd(RMul(a(k), T[i]), b(k)) )
           => /\ orient.zerotimevelocities[k] = a(k)
              /\ lastload.fit = "accel" => orient.zerotimeintercepts[k] = b(k)

\* the velocity series 2*t + 5 on a non-uniform axis was fitted in
\* acceleration mode: slope 2, intercept 5
C10_Witness ==
  /\ lastload.path = "file" /\ lastload.fit = "accel" /\ ~lastload.exit
  /\ orient.NUMT >= nPoints
  /\ ~IsUniform(orient.time, orient.NUMT)
  /\ \A i \in 0..(nPoints - 1) :
       orient.ucen[i] = RAdd(RMul(R(2), orient.time[i]), R(5))
  /\ orient.zerotimevelocities[0] = R(2)
  /\ orient.zerotimeintercepts[0] = R(5)

\* C11: the regression window is not bounded by the table's sample count.
\* When backward extrapolation is enabled (velocity data present) and the
\* loaded table has fewer samples than nPoints, find_initial_velocity reads
\* the time axis and each of the three fitted series at every index from
\* NUMT up to nPoints - 1, that is, past the stored series.
C11_WindowReadsPastSeries ==
  ( /\ lastload.path = "file"
    /\ havevelocity /\ backwards
    /\ orient.NUMT < nPoints )
  => /\ lastload.fit \in { "slope", "accel" }
     /\ \A i \in orient.NUMT..(nPoints - 1) :
          { <<"time", i>>, <<"xterm", i>>, <<"yterm", i>>, <<"zterm", i>> }
            \subseteq lastload.oob
     /\ \A r \in lastload.oob : r[2] >= orient.NUMT

\* a table shorter than the window was loaded with the regression configured,
\* the fit read past the series and went on to store its result
C11_Witness ==
  /\ lastload.path = "file"
  /\ havevelocity /\ backwards
  /\ orient.NUMT < nPoints
  /\ <<"xterm", orient.NUMT>> \in lastload.oob
  /\ ~lastload.exit
  /\ pc = "run"

\* C12: under the non-uniform policy, a query at or after the last stored
\* time is resolved by a scan that terminates having read only the elements
\* time[0..NUMT-1], and that returns the index NUMT - 2 together with the
\* high-end diagnostic.
C12_ScanStaysInTable ==
  ( /\ OrientQuery
    /\ lastq.resolver = "scan"
    /\ RLe(orient.time[orient.NUMT - 1], lastq.q) )
  => /\ ~lastq.crashed
     /\ lastq.scanned \subseteq 0..(orient.NUMT - 1)
     /\ lastq.raw = orient.NUMT - 2
     /\ lastq.warnhigh

\* C13: whatever flags were in force when read_orient populated the table,
\* every extrapolation parameter a pre-simulation query reads (an element of
\* zerotimevelocities, and of zerotimeintercepts when the acceleration model
\* is evaluated) lies in storage that the load allocated; in particular with
\* backwardsaccel set and backwards clear.
C13_ParametersAllocated ==
  ( /\ OrientQuery
    /\ lastload.path = "file"
    /\ lastq.raw < 0
    /\ lastq.resolver # "none" )
  => \A r \in lastq.reads :
       r[1] \in { "zerotimevelocities", "zerotimeintercepts" }
       => /\ r \notin lastq.oob
          /\ r[2] \in DOMAIN orient[r[1]]

============================================================================
